---- MODULE Spec2Model ----
(***************************************************************************)
(* Brandes-Koepf horizontal coordinate assignment, lib/position/bk.js:     *)
(* type-1 conflict detection, vertical alignment, horizontal compaction.   *)
(*                                                                         *)
(* Node ids are the integers 1..n, handed out layer by layer and left to   *)
(* right.  `order` is 0-based as in the source; sequences are 1-based, so  *)
(* the JS expression layer[i] is layer[i + 1] here.  Widths are drawn from *)
(* even numbers and nodesep/edgesep are the (even) defaults, so every      *)
(* "/ 2" of the source is exact and coordinates stay integers.             *)
(* An optional value (x undefined, shift = +Infinity) is the empty         *)
(* sequence, a present value n is <<n>>.  Ids start at 1, so a node id is  *)
(* never falsy and the test "w ?" of line 49 is the test for a found node. *)
(* Ids are compared by one total order, as "v > w" does for ids of one     *)
(* type.                                                                   *)
(***************************************************************************)
EXTENDS Integers, Sequences, FiniteSets, TLC

VARIABLES
  g,          \* node labels set by earlier stages: rank, order, dummy, width, preds
  layering,   \* sequence of layers, each a sequence of node ids
  nodes,      \* enumeration order of g.nodes() / g.nodeIds()
  conflicts,  \* the type-1 conflict map: smaller id -> set of larger ids
  root,       \* label.root
  align,      \* label.align
  x,          \* label.x (optional)
  sink,       \* horizontalCompaction's local table
  shift,      \* horizontalCompaction's local table (optional = +Infinity)
  pc,         \* position of the pipeline
  li,         \* verticalAlignment: index of the layer being scanned
  vi,         \* verticalAlignment: index of the node in that layer
  prevIdx,    \* verticalAlignment: prevIdx of the layer being scanned
  idx,        \* horizontalCompaction: index into nodes of the running _.each
  stack,      \* call stack of placeBlock: frames [v, w, st]
  run,        \* which run of horizontalCompaction this is (1 or 2)
  xFirst,     \* history: the coordinates the first run produced
  bodyRuns,   \* history: how often the body of placeBlock ran for each node
  merged,     \* history: the pairs <<v, w>> verticalAlignment merged
  xPlaced,    \* history: x as step 2 of horizontalCompaction left it
  added       \* history: the argument pairs of the addType1Conflict calls

vars == <<g, layering, nodes, conflicts, root, align, x, sink, shift, pc, li, vi,
          prevIdx, idx, stack, run, xFirst, bodyRuns, merged, xPlaced, added>>

-----------------------------------------------------------------------------
(* Bounds of the model *)

\* largest number of nodes of a graph run through the whole pipeline
MaxNodes == 4
\* largest number of predecessors of a node in those graphs
MaxInDegree == 2
\* largest number of nodes of the two-layer graphs given to collectType1Conflicts
MaxConflictNodes == 5
\* largest number of edges of those graphs
MaxConflictEdges == 3
\* node ids 1..MaxId are the arguments of direct addType1Conflict calls
MaxId == 3
\* largest number of nodes of the deeper graphs (at most one predecessor each)
MaxDeepNodes == 5

(* Program constants *)
NodeSepDefault == 50
EdgeSepDefault == 10

\* the optional values
Nothing == <<>>
Some(n) == <<n>>
Val(o) == o[1]

Min(a, b) == IF a <= b THEN a ELSE b
Max(a, b) == IF a >= b THEN a ELSE b

-----------------------------------------------------------------------------
(* Input graphs *)

RECURSIVE SumSeq(_)
SumSeq(s) == IF s = <<>> THEN 0 ELSE Head(s) + SumSeq(Tail(s))

\* the layer sizes of the layerings of n nodes: the compositions of n
RECURSIVE Shapes(_)
Shapes(n) ==
  IF n = 0 THEN {<<>>}
  ELSE UNION {{<<k>> \o s : s \in Shapes(n - k)} : k \in 1..n}

RECURSIVE LayeringFrom(_, _)
LayeringFrom(shape, first) ==
  IF shape = <<>> THEN <<>>
  ELSE <<[i \in 1..Head(shape) |-> first + i - 1]>>
         \o LayeringFrom(Tail(shape), first + Head(shape))

\* ids are handed out layer by layer, left to right
LayeringOf(shape) == LayeringFrom(shape, 1)

NodeCount(lay) == SumSeq([r \in 1..Len(lay) |-> Len(lay[r])])

RankIn(lay, v) == (CHOOSE r \in 1..Len(lay) : \E i \in 1..Len(lay[r]) : lay[r][i] = v) - 1

OrderIn(lay, v) ==
  LET r == RankIn(lay, v) + 1 IN (CHOOSE i \in 1..Len(lay[r]) : lay[r][i] = v) - 1

LayerSet(lay, r) == IF r < 1 THEN {} ELSE {lay[r][i] : i \in 1..Len(lay[r])}

\* the ids of S in ascending order (within a layer: in ascending `order`)
RECURSIVE SortedSeq(_)
SortedSeq(S) ==
  IF S = {} THEN <<>>
  ELSE LET m == CHOOSE a \in S : \A b \in S : a <= b
       IN <<m>> \o SortedSeq(S \ {m})

\* every way to give nodes 1..k predecessors in the layer above, at most maxIn each
RECURSIVE PredChoices(_, _, _)
PredChoices(lay, k, maxIn) ==
  IF k = 0 THEN {<<>>}
  ELSE {Append(f, SortedSeq(S)) :
          f \in PredChoices(lay, k - 1, maxIn),
          S \in {T \in SUBSET LayerSet(lay, RankIn(lay, k)) : Cardinality(T) <= maxIn}}

EdgeCount(preds) == SumSeq([v \in 1..Len(preds) |-> Len(preds[v])])

UniformWidth(n) == [v \in 1..n |-> 40]
DistinctWidth(n) == [v \in 1..n |-> 20 * v]

Labels(lay, preds, dummy, width) ==
  [rank  |-> [v \in 1..NodeCount(lay) |-> RankIn(lay, v)],
   order |-> [v \in 1..NodeCount(lay) |-> OrderIn(lay, v)],
   dummy |-> dummy,
   width |-> width,
   preds |-> preds]

Ascending(n) == [i \in 1..n |-> i]
Descending(n) == [i \in 1..n |-> n + 1 - i]

NodeIds == 1..Len(nodes)

-----------------------------------------------------------------------------
(* The graph accessors of the source *)

\* g.predecessors(v); also the neighborFn of a top-down pass
Predecessors(v) == g.preds[v]

Pos(v) == g.order[v]

Pred(v) == layering[g.rank[v] + 1][g.order[v]]

-----------------------------------------------------------------------------
(* addType1Conflict, hasType1Conflict *)

NoConflicts == [k \in {} |-> {}]

AddUnordered(c, v, w) ==
  IF v \in DOMAIN c THEN [c EXCEPT ![v] = @ \cup {w}]
  ELSE [k \in DOMAIN c \cup {v} |-> IF k = v THEN {w} ELSE c[k]]

AddType1Conflict(c, v, w) ==
  LET a == IF v > w THEN w ELSE v
      b == IF v > w THEN v ELSE w
  IN IF a \in DOMAIN c
       THEN [c EXCEPT ![a] = @ \cup {b}]
       ELSE [k \in DOMAIN c \cup {a} |-> IF k = a THEN {b} ELSE c[k]]

HasType1Conflict(c, v, w) ==
  LET a == IF v > w THEN w ELSE v
      b == IF v > w THEN v ELSE w
  IN a \in DOMAIN c /\ b \in c[a]

-----------------------------------------------------------------------------
(* collectType1Conflicts *)

\* findOtherInnerSegmentNode: the first dummy predecessor of a dummy node
FindOtherInnerSegmentNode(v) ==
  IF g.dummy[v]
    THEN LET us == Predecessors(v)
             ds == {j \in 1..Len(us) : g.dummy[us[j]]}
         IN IF ds = {} THEN Nothing
            ELSE Some(us[CHOOSE j \in ds : \A k \in ds : j <= k])
    ELSE Nothing

\* a test that also takes the ends of the window for outside
OutsideOrOnWindow(uPos, k0, k1) == uPos <= k0 \/ k1 <= uPos

\* line 56: uPos < k0 || k1 < uPos
OutsideWindow(uPos, k0, k1) == uPos < k0 \/ k1 < uPos

\* _.each(g.predecessors(scanNode), ...), from the j-th predecessor on
RECURSIVE ScanPreds(_, _, _, _, _)
ScanPreds(c, scanNode, k0, k1, j) ==
  LET us == Predecessors(scanNode) IN
  IF j > Len(us) THEN c
  ELSE LET u == us[j]
           uPos == g.order[u]
           c2 == IF OutsideWindow(uPos, k0, k1) /\ ~(g.dummy[u] /\ g.dummy[scanNode])
                   THEN AddType1Conflict(c, u, scanNode)
                   ELSE c
       IN ScanPreds(c2, scanNode, k0, k1, j + 1)

\* _.each(layer.slice(scanPos, i + 1), ...): the nodes layer[from..to] (1-based)
RECURSIVE ScanNodes(_, _, _, _, _, _)
ScanNodes(c, layer, from, to, k0, k1) ==
  IF from > to THEN c
  ELSE ScanNodes(ScanPreds(c, layer[from], k0, k1, 1), layer, from + 1, to, k0, k1)

\* the body of visitLayer's _.each(layer, ...), from the node of 0-based index i on
RECURSIVE VisitNodes(_, _, _, _, _, _)
VisitNodes(c, prevLayer, layer, k0, scanPos, i) ==
  IF i >= Len(layer) THEN c
  ELSE LET v == layer[i + 1]
           w == FindOtherInnerSegmentNode(v)
           k1 == IF w # Nothing THEN g.order[Val(w)] ELSE Len(prevLayer)
       IN IF w # Nothing \/ v = layer[Len(layer)]
            THEN VisitNodes(ScanNodes(c, layer, scanPos + 1, i + 1, k0, k1),
                            prevLayer, layer, k1, i + 1, i + 1)
            ELSE VisitNodes(c, prevLayer, layer, k0, scanPos, i + 1)

VisitLayer(c, prevLayer, layer) == VisitNodes(c, prevLayer, layer, 0, 0, 0)

\* _.reduce(layering, visitLayer): layer r against layer r - 1, for r = 2, 3, ...
RECURSIVE ReduceLayers(_, _, _)
ReduceLayers(c, lay, r) ==
  IF r > Len(lay) THEN c
  ELSE ReduceLayers(VisitLayer(c, lay[r - 1], lay[r]), lay, r + 1)

CollectType1Conflicts(lay) == ReduceLayers(NoConflicts, lay, 2)

-----------------------------------------------------------------------------
(* verticalAlignment *)

\* the test without its look at the conflicts
CanAlignAcrossConflict(st, v, w) ==
  /\ st.align[v] = v
  /\ st.prevIdx < g.order[w]

\* the test with prevIdx <= w.order
CanAlignAtPrevIdx(st, v, w) ==
  /\ st.align[v] = v
  /\ st.prevIdx <= g.order[w]
  /\ ~HasType1Conflict(conflicts, v, w)

\* the test without prevIdx
CanAlignAnyOrder(st, v, w) ==
  /\ st.align[v] = v
  /\ ~HasType1Conflict(conflicts, v, w)

\* the test of lines 131-133, on the labels as the loop has left them so far
CanAlign(st, v, w) ==
  /\ st.align[v] = v
  /\ st.prevIdx < g.order[w]
  /\ ~HasType1Conflict(conflicts, v, w)

\* a merge that closes the cycle at the neighbour: v.align = w
MergeToNeighbour(st, v, w) ==
  [root    |-> [st.root EXCEPT ![v] = st.root[w]],
   align   |-> [[st.align EXCEPT ![w] = v] EXCEPT ![v] = w],
   prevIdx |-> g.order[w],
   merged  |-> st.merged \cup {<<v, w>>}]

\* lines 134-136: w.align = v; v.align = v.root = w.root; prevIdx = w.order
MergeBlocks(st, v, w) ==
  [root    |-> [st.root EXCEPT ![v] = st.root[w]],
   align   |-> [[st.align EXCEPT ![w] = v] EXCEPT ![v] = st.root[w]],
   prevIdx |-> g.order[w],
   merged  |-> st.merged \cup {<<v, w>>}]

\* the for loop over the median candidates ws[i], i = floor(mp) .. ceil(mp) (0-based)
RECURSIVE TryMedians(_, _, _, _, _)
TryMedians(st, v, ws, i, il) ==
  IF i > il THEN st
  ELSE LET w == ws[i + 1]
       IN TryMedians(IF CanAlign(st, v, w) THEN MergeBlocks(st, v, w) ELSE st,
                     v, ws, i + 1, il)

\* the body of the inner _.each of verticalAlignment for node v
AlignOne(st, v) ==
  LET ws == Predecessors(v) IN
  IF Len(ws) > 0
    THEN TryMedians(st, v, ws, (Len(ws) - 1) \div 2, Len(ws) \div 2)
    ELSE st

-----------------------------------------------------------------------------
(* horizontalCompaction *)

\* sep(g, options, v, u) with the default options
Sep(v, u) ==
  LET nodeSep == NodeSepDefault \div 2
      edgeSep == EdgeSepDefault \div 2
  IN (g.width[u] \div 2)
       + (IF g.dummy[u] THEN edgeSep ELSE nodeSep)
       + (IF g.dummy[v] THEN edgeSep ELSE nodeSep)
       + (g.width[v] \div 2)

\* a placed-flag that outlives the run
IsPlacedEver(v) == bodyRuns[v] > 0

\* !_.isUndefined(vLabel.x)
IsPlaced(v) == x[v] # Nothing

\* Math.min(shift[sink[u]], val), +Infinity being Nothing
MinShift(old, val) == IF old = Nothing THEN Some(val) ELSE Some(Min(Val(old), val))

\* the difference with the sign of delta slipped
ShiftValuePlusDelta(xv, xu, delta) == xv - xu + delta

\* line 195: vLabel.x - x(g, u) - delta
ShiftValue(xv, xu, delta) == xv - xu - delta

\* lines 171-174: x(root), plus the shift of the root's sink when it is finite.
\* An undefined x(root) stays undefined (it is never a coordinate).
FinalX(v) ==
  LET r == root[v] IN
  IF x[r] = Nothing THEN Nothing
  ELSE IF shift[sink[r]] # Nothing THEN Some(Val(x[r]) + Val(shift[sink[r]]))
  ELSE x[r]

Top == stack[Len(stack)]
Pop == SubSeq(stack, 1, Len(stack) - 1)
Frame(v, w, st) == [v |-> v, w |-> w, st |-> st]

\* w = align(g, w); } while (w !== v): the stack after the walk moves on from w
Advance(v, w) ==
  IF align[w] # v THEN Append(Pop, Frame(v, align[w], "loop")) ELSE Pop

-----------------------------------------------------------------------------
(* The pipeline: collectType1Conflicts, verticalAlignment, horizontalCompaction,
   then x cleared and horizontalCompaction once more.  The graphs have up to
   MaxNodes nodes, all of one width or of pairwise different widths, any dummy
   flags, up to MaxInDegree predecessors per node, and g.nodes() enumerates them
   by ascending or by descending id. *)

NoLabels == [v \in {} |-> 0]

StartWith(lay, labels, order, at) ==
  /\ layering = lay
  /\ g = labels
  /\ nodes = order
  /\ conflicts = NoConflicts
  /\ root = NoLabels
  /\ align = NoLabels
  /\ x = [v \in 1..Len(order) |-> Nothing]
  /\ sink = NoLabels
  /\ shift = NoLabels
  /\ pc = at
  /\ li = 1
  /\ vi = 1
  /\ prevIdx = -1
  /\ idx = 1
  /\ stack = <<>>
  /\ run = 1
  /\ xFirst = [v \in 1..Len(order) |-> Nothing]
  /\ bodyRuns = [v \in 1..Len(order) |-> 0]
  /\ merged = {}
  /\ xPlaced = [v \in 1..Len(order) |-> Nothing]
  /\ added = {}

Init ==
  \E n \in 1..MaxNodes :
    \E shape \in Shapes(n) :
      \E preds \in PredChoices(LayeringOf(shape), n, MaxInDegree) :
        \E dummy \in [1..n -> BOOLEAN] :
          \E width \in {UniformWidth(n), DistinctWidth(n)} :
            \E order \in {Ascending(n), Descending(n)} :
              StartWith(LayeringOf(shape),
                        Labels(LayeringOf(shape), preds, dummy, width),
                        order, "collect")

Collect ==
  /\ pc = "collect"
  /\ conflicts' = CollectType1Conflicts(layering)
  /\ pc' = "alignInit"
  /\ UNCHANGED <<g, layering, nodes, root, align, x, sink, shift, li, vi, prevIdx,
                 idx, stack, run, xFirst, bodyRuns, merged, xPlaced, added>>

\* lines 114-119
AlignInit ==
  /\ pc = "alignInit"
  /\ root' = [v \in NodeIds |-> v]
  /\ align' = [v \in NodeIds |-> v]
  /\ li' = 1
  /\ vi' = 1
  /\ prevIdx' = -1
  /\ pc' = "align"
  /\ UNCHANGED <<g, layering, nodes, conflicts, x, sink, shift, idx, stack, run,
                 xFirst, bodyRuns, merged, xPlaced, added>>

\* lines 121-141, one node of one layer per step
AlignNode ==
  /\ pc = "align"
  /\ LET v == layering[li][vi]
         st == AlignOne([root |-> root, align |-> align, prevIdx |-> prevIdx,
                         merged |-> merged], v)
     IN /\ root' = st.root
        /\ align' = st.align
        /\ merged' = st.merged
        /\ IF vi < Len(layering[li])
             THEN /\ vi' = vi + 1
                  /\ prevIdx' = st.prevIdx
                  /\ UNCHANGED <<li, pc>>
             ELSE /\ vi' = 1
                  /\ prevIdx' = -1
                  /\ IF li < Len(layering)
                       THEN li' = li + 1 /\ UNCHANGED pc
                       ELSE pc' = "compactInit" /\ UNCHANGED li
  /\ UNCHANGED <<g, layering, nodes, conflicts, x, sink, shift, idx, stack, run,
                 xFirst, bodyRuns, xPlaced, added>>

\* lines 147-158
CompactInit ==
  /\ pc = "compactInit"
  /\ sink' = [v \in NodeIds |-> v]
  /\ shift' = [v \in NodeIds |-> Nothing]
  /\ idx' = 1
  /\ stack' = <<>>
  /\ pc' = "place"
  /\ UNCHANGED <<g, layering, nodes, conflicts, root, align, x, li, vi, prevIdx,
                 run, xFirst, bodyRuns, merged, xPlaced, added>>

\* lines 160-165: the next node of g.nodes(); placeBlock is called on a root
PlaceRoots ==
  /\ pc = "place"
  /\ stack = <<>>
  /\ idx <= Len(nodes)
  /\ LET v == nodes[idx]
     IN stack' = IF root[v] = v THEN <<Frame(v, v, "enter")>> ELSE <<>>
  /\ idx' = idx + 1
  /\ UNCHANGED <<g, layering, nodes, conflicts, root, align, x, sink, shift, pc,
                 li, vi, prevIdx, run, xFirst, bodyRuns, merged, xPlaced, added>>

\* lines 179-183: return when x is defined, else x = 0 and the walk starts at v
PlaceEnter ==
  /\ pc = "place"
  /\ stack # <<>>
  /\ Top.st = "enter"
  /\ LET v == Top.v
     IN IF IsPlaced(v)
          THEN /\ stack' = Pop
               /\ UNCHANGED <<x, bodyRuns>>
          ELSE /\ x' = [x EXCEPT ![v] = Some(0)]
               /\ bodyRuns' = [bodyRuns EXCEPT ![v] = @ + 1]
               /\ stack' = Append(Pop, Frame(v, v, "loop"))
  /\ UNCHANGED <<g, layering, nodes, conflicts, root, align, sink, shift, pc, li,
                 vi, prevIdx, idx, run, xFirst, merged, xPlaced, added>>

\* lines 186-188 and 200-201: a member with a left neighbour calls placeBlock on the
\* neighbour's root; one without moves the walk on
PlaceWalk ==
  /\ pc = "place"
  /\ stack # <<>>
  /\ Top.st = "loop"
  /\ LET v == Top.v
         w == Top.w
     IN IF Pos(w) > 0
          THEN LET u == root[Pred(w)]
               IN stack' = Append(Append(Pop, Frame(v, w, "ret")), Frame(u, u, "enter"))
          ELSE stack' = Advance(v, w)
  /\ UNCHANGED <<g, layering, nodes, conflicts, root, align, x, sink, shift, pc,
                 li, vi, prevIdx, idx, run, xFirst, bodyRuns, merged, xPlaced, added>>

\* lines 189-201, after placeBlock(u) has returned
PlaceReturn ==
  /\ pc = "place"
  /\ stack # <<>>
  /\ Top.st = "ret"
  /\ LET v == Top.v
         w == Top.w
         u == root[Pred(w)]
         sink1 == IF sink[v] = v THEN [sink EXCEPT ![v] = sink[u]] ELSE sink
         delta == Sep(w, u)
     IN /\ sink' = sink1
        /\ IF sink1[v] # sink1[u]
             THEN /\ shift' = [shift EXCEPT ![sink1[u]] =
                                 MinShift(@, ShiftValue(Val(x[v]), Val(x[u]), delta))]
                  /\ UNCHANGED x
             ELSE /\ x' = [x EXCEPT ![v] = Some(Max(Val(x[v]), Val(x[u]) + delta))]
                  /\ UNCHANGED shift
        /\ stack' = Advance(v, w)
  /\ UNCHANGED <<g, layering, nodes, conflicts, root, align, pc, li, vi, prevIdx,
                 idx, run, xFirst, bodyRuns, merged, xPlaced, added>>

\* the _.each of lines 160-165 has run out
PlaceDone ==
  /\ pc = "place"
  /\ stack = <<>>
  /\ idx > Len(nodes)
  /\ xPlaced' = x
  /\ idx' = 1
  /\ pc' = "final"
  /\ UNCHANGED <<g, layering, nodes, conflicts, root, align, x, sink, shift, li, vi,
                 prevIdx, stack, run, xFirst, bodyRuns, merged, added>>

\* lines 167-175, one node of g.nodes() per step
FinalPass ==
  /\ pc = "final"
  /\ LET v == nodes[idx]
     IN x' = [x EXCEPT ![v] = FinalX(v)]
  /\ idx' = idx + 1
  /\ pc' = IF idx = Len(nodes) THEN "compacted" ELSE "final"
  /\ UNCHANGED <<g, layering, nodes, conflicts, root, align, sink, shift, li, vi,
                 prevIdx, stack, run, xFirst, bodyRuns, merged, xPlaced, added>>

\* the caller clears every x, keeps root and align, and compacts again
ClearX ==
  /\ pc = "compacted"
  /\ run = 1
  /\ xFirst' = x
  /\ x' = [v \in NodeIds |-> Nothing]
  /\ run' = 2
  /\ pc' = "compactInit"
  /\ UNCHANGED <<g, layering, nodes, conflicts, root, align, sink, shift, li, vi,
                 prevIdx, idx, stack, bodyRuns, merged, xPlaced, added>>

Next ==
  \/ Collect
  \/ AlignInit
  \/ AlignNode
  \/ CompactInit
  \/ PlaceRoots
  \/ PlaceEnter
  \/ PlaceWalk
  \/ PlaceReturn
  \/ PlaceDone
  \/ FinalPass
  \/ ClearX

Spec == Init /\ [][Next]_vars

-----------------------------------------------------------------------------
(* The same pipeline on deeper graphs: up to MaxDeepNodes nodes, every node with at
   most one predecessor (as long edges cut into dummy chains have), equal widths *)

InitDeep ==
  \E n \in 1..MaxDeepNodes :
    \E shape \in Shapes(n) :
      \E preds \in PredChoices(LayeringOf(shape), n, 1) :
        \E dummy \in [1..n -> BOOLEAN] :
          \E order \in {Ascending(n), Descending(n)} :
            StartWith(LayeringOf(shape),
                      Labels(LayeringOf(shape), preds, dummy, UniformWidth(n)),
                      order, "collect")

SpecDeep == InitDeep /\ [][Next]_vars

-----------------------------------------------------------------------------
(* collectType1Conflicts alone, on graphs with any predecessor sets of at most
   MaxConflictEdges edges in all *)

InitCollect ==
  \E n \in 1..MaxConflictNodes :
    \E shape \in Shapes(n) :
      \E preds \in {p \in PredChoices(LayeringOf(shape), n, n) :
                      EdgeCount(p) <= MaxConflictEdges} :
        \E dummy \in [1..n -> BOOLEAN] :
          StartWith(LayeringOf(shape),
                    Labels(LayeringOf(shape), preds, dummy, UniformWidth(n)),
                    Ascending(n), "collect")

SpecCollect == InitCollect /\ [][Collect]_vars

-----------------------------------------------------------------------------
(* addType1Conflict called directly, with any arguments in any order *)

InitConflict ==
  StartWith(LayeringOf(<<1>>),
            Labels(LayeringOf(<<1>>), <<<<>>>>, [v \in 1..1 |-> FALSE], UniformWidth(1)),
            Ascending(1), "calls")

AddCall ==
  /\ pc = "calls"
  /\ \E v \in 1..MaxId, w \in 1..MaxId :
       /\ conflicts' = AddType1Conflict(conflicts, v, w)
       /\ added' = added \cup {<<v, w>>}
  /\ UNCHANGED <<g, layering, nodes, root, align, x, sink, shift, pc, li, vi, prevIdx,
                 idx, stack, run, xFirst, bodyRuns, merged, xPlaced>>

SpecConflict == InitConflict /\ [][AddCall]_vars

-----------------------------------------------------------------------------
(* Properties *)

\* the separation of w from its left neighbour u, as the layout requires it
RequiredSep(w, u) ==
  (g.width[u] \div 2)
    + ((IF g.dummy[u] THEN EdgeSepDefault ELSE NodeSepDefault) \div 2)
    + ((IF g.dummy[w] THEN EdgeSepDefault ELSE NodeSepDefault) \div 2)
    + (g.width[w] \div 2)

\* C1: after verticalAlignment and horizontalCompaction every node w with
\* order(w) > 0 stands at least sep(w, u) to the right of its left neighbour u
C1_Separation ==
  pc = "compacted" =>
    \A w \in NodeIds :
      Pos(w) > 0 => Val(x[w]) >= Val(x[Pred(w)]) + RequiredSep(w, Pred(w))

Edges == {e \in NodeIds \X NodeIds : \E j \in 1..Len(g.preds[e[2]]) : g.preds[e[2]][j] = e[1]}

IsInner(e) == g.dummy[e[1]] /\ g.dummy[e[2]]

\* e and s run between the same two layers and cross when drawn straight
Crosses(e, s) ==
  /\ g.rank[e[2]] = g.rank[s[2]]
  /\ \/ g.order[e[1]] < g.order[s[1]] /\ g.order[e[2]] > g.order[s[2]]
     \/ g.order[e[1]] > g.order[s[1]] /\ g.order[e[2]] < g.order[s[2]]

CrossingNonInner ==
  {{e[1], e[2]} : e \in {f \in Edges : ~IsInner(f) /\ \E s \in Edges : IsInner(s) /\ Crosses(f, s)}}

Recorded == UNION {{{a, b} : b \in conflicts[a]} : a \in DOMAIN conflicts}

AtMostOneDummyPred ==
  \A v \in NodeIds :
    g.dummy[v] => Cardinality({e \in Edges : e[2] = v /\ g.dummy[e[1]]}) <= 1

SoleIncomingInner ==
  \A s \in Edges : IsInner(s) => \A e \in Edges : e[2] = s[2] => e = s

NoInnerCrossing ==
  \A s \in Edges, t \in Edges : IsInner(s) /\ IsInner(t) => ~Crosses(s, t)

\* C2 (as claimed): whenever every dummy node has at most one dummy predecessor,
\* the recorded pairs are exactly the non-inner edges that cross an inner segment
C2_ExactlyCrossing ==
  (pc = "alignInit" /\ AtMostOneDummyPred) => Recorded = CrossingNonInner

\* C2 (amended): whenever the lower end of every inner segment has no other incoming
\* edge and no two inner segments cross, the recorded pairs are exactly the non-inner
\* edges that cross an inner segment
C2_ExactlyCrossingWellFormed ==
  (pc = "alignInit" /\ SoleIncomingInner /\ NoInnerCrossing) => Recorded = CrossingNonInner

C2_Witness ==
  /\ pc = "alignInit"
  /\ SoleIncomingInner
  /\ NoInnerCrossing
  /\ Recorded # {}
  /\ \E e \in Edges : ~IsInner(e) /\ {e[1], e[2]} \notin Recorded

Block(v) == {u \in NodeIds : root[u] = root[v]}

RECURSIVE AlignSteps(_, _)
AlignSteps(v, k) == IF k = 0 THEN v ELSE align[AlignSteps(v, k - 1)]

\* C3: after verticalAlignment align is a permutation of the nodes (disjoint cycles
\* that cover them), root is constant along every cycle, and following align from a
\* node comes back to it after exactly as many steps as its block has members
C3_AlignCycles ==
  pc = "compactInit" =>
    /\ \A v \in NodeIds, u \in NodeIds : v # u => align[v] # align[u]
    /\ \A v \in NodeIds : root[align[v]] = root[v] /\ root[root[v]] = root[v]
    /\ \A v \in NodeIds :
         /\ AlignSteps(v, Cardinality(Block(v))) = v
         /\ \A k \in 1..(Cardinality(Block(v)) - 1) : AlignSteps(v, k) # v

C3_Witness ==
  /\ pc = "compactInit"
  /\ \E v \in NodeIds : Cardinality(Block(v)) >= 3
  /\ \E v \in NodeIds : Cardinality(Block(v)) = 1

\* the links w.align = v that point one layer down: those a merge has set
MergeLinks ==
  {<<align[w], w>> : w \in {u \in NodeIds : g.rank[align[u]] = g.rank[u] + 1}}

Medians(v) ==
  LET ws == Predecessors(v)
  IN IF Len(ws) = 0 THEN {}
     ELSE {ws[i + 1] : i \in ((Len(ws) - 1) \div 2)..(Len(ws) \div 2)}

\* C4: after verticalAlignment no link w.align = v set by a merge joins two nodes
\* with a recorded type-1 conflict
C4_NoMergeAcrossConflict ==
  pc = "compactInit" =>
    /\ merged = MergeLinks
    /\ \A p \in merged : ~HasType1Conflict(conflicts, p[1], p[2])

C4_Witness ==
  /\ pc = "compactInit"
  /\ merged # {}
  /\ \E v \in NodeIds : \E w \in Medians(v) :
       HasType1Conflict(conflicts, v, w) /\ align[w] = w

\* C5: after any addType1Conflict calls hasType1Conflict is symmetric and true
\* exactly of the pairs added, in either argument order
C5_SymmetricExact ==
  pc = "calls" =>
    \A v \in 1..MaxId, w \in 1..MaxId :
      /\ HasType1Conflict(conflicts, v, w) = HasType1Conflict(conflicts, w, v)
      /\ HasType1Conflict(conflicts, v, w) <=> (<<v, w>> \in added \/ <<w, v>> \in added)

C5_Witness ==
  /\ pc = "calls"
  /\ \E v \in 1..MaxId, w \in 1..MaxId :
       /\ v > w
       /\ <<v, w>> \in added
       /\ <<w, v>> \notin added
       /\ HasType1Conflict(conflicts, w, v)
  /\ \E v \in 1..MaxId, w \in 1..MaxId :
       ~HasType1Conflict(conflicts, v, w)

\* C6: horizontalCompaction run again after x is cleared, root and align kept, gives
\* every node the x of the first run
C6_Idempotent ==
  (pc = "compacted" /\ run = 2) => x = xFirst

C6_Witness ==
  /\ pc = "compacted"
  /\ run = 2
  /\ \E s \in NodeIds : shift[s] # Nothing
  /\ \E v \in NodeIds : root[v] # v
  /\ x = xFirst

\* C7: the final pass leaves every node n at the x block placement gave root(n),
\* plus shift[sink[root(n)]] once when that shift is finite
C7_FinalPassOnce ==
  pc = "compacted" =>
    \A n \in NodeIds :
      x[n] = Some(Val(xPlaced[root[n]])
                    + (IF shift[sink[root[n]]] # Nothing
                         THEN Val(shift[sink[root[n]]]) ELSE 0))

\* C8: two merges of one layer do not cross: of two merged nodes of a layer the left
\* one is merged with the neighbour further left, so no neighbour is merged twice
C8_NonCrossing ==
  pc = "compactInit" =>
    \A p \in merged, q \in merged :
      (g.rank[p[1]] = g.rank[q[1]] /\ g.order[p[1]] < g.order[q[1]])
        => g.order[p[2]] < g.order[q[2]]

C8_Witness ==
  /\ pc = "compactInit"
  /\ \E p \in merged, q \in merged :
       g.rank[p[1]] = g.rank[q[1]] /\ g.order[p[1]] < g.order[q[1]]
  /\ \E v \in NodeIds : \E w \in Medians(v) :
       align[w] # v /\ ~HasType1Conflict(conflicts, v, w)

\* C9: the body of placeBlock runs once per block root in a run, no block is entered
\* again while its placement is in progress, and x(u) is read only after the
\* placement of u has completed
C9_PlacedOnceInOrder ==
  /\ \A i \in 1..Len(stack), j \in 1..Len(stack) : i < j => stack[i].v # stack[j].v
  /\ \A v \in DOMAIN bodyRuns : bodyRuns[v] <= run
  /\ pc \in {"final", "compacted"} =>
       \A v \in NodeIds : bodyRuns[v] = IF root[v] = v THEN run ELSE 0
  /\ (pc = "place" /\ stack # <<>> /\ Top.st = "ret") =>
       LET u == root[Pred(Top.w)]
       IN /\ x[u] # Nothing
          /\ bodyRuns[u] = run
          /\ \A i \in 1..Len(stack) : stack[i].v # u

C9_Witness ==
  /\ pc = "place"
  /\ Len(stack) >= 2
  /\ Top.st = "ret"
  /\ Val(x[root[Pred(Top.w)]]) > 0

\* C10 (as claimed): every finite shift is negative or zero
C10_ShiftNonPositive ==
  \A s \in DOMAIN shift : shift[s] # Nothing => Val(shift[s]) <= 0

\* C10 (amended): a finite value stored in shift[s] is at most v.x - x(u) - delta of
\* the write that stores it and never above the value it replaces
C10_ShiftBound ==
  [][\A s \in DOMAIN shift' :
       (s \in DOMAIN shift /\ shift'[s] # Nothing /\ shift'[s] # shift[s]) =>
         /\ pc = "place" /\ stack # <<>> /\ Top.st = "ret"
         /\ LET v == Top.v
                u == root[Pred(Top.w)]
            IN /\ s = sink'[u]
               /\ sink'[v] # sink'[u]
               /\ Val(shift'[s]) <= Val(x[v]) - Val(x[u]) - Sep(Top.w, u)
         /\ shift[s] # Nothing => Val(shift'[s]) <= Val(shift[s])]_vars

C10_Witness ==
  /\ pc = "place"
  /\ \E s \in NodeIds : shift[s] # Nothing /\ Val(shift[s]) > 0

====
